---- MODULE Spec2Model ----
(***************************************************************************)
(* Internship tracker (src/src/index.ts): identifier generation, the       *)
(* persisted tracker state, the source adapters, the new-posting diff and  *)
(* the check / monitor / list operations of the command line interface.    *)
(*                                                                         *)
(* Text is modelled as a sequence of one-character strings, so that the    *)
(* string functions of the program are computed character by character.    *)
(* JavaScript values are records tagged by their type in field t.          *)
(* The program is an ES module (it starts with import statements), so its  *)
(* code runs in strict mode: assigning a property to a primitive throws.   *)
(***************************************************************************)
EXTENDS Integers, Sequences, FiniteSets, TLC

(***************************************************************************)
(* Bounds of the model.                                                    *)
(***************************************************************************)
\* Most operations (check, list, monitor cycle) started in one behaviour.
MaxOps == 3
\* Most table rows of the fetched GitHub page.
MaxRows == 1
\* Most characters of the monitor command's interval argument.
MaxArgLen == 2
\* Most characters of each field of a triple given to generateId.
MaxFieldLen == 1

(***************************************************************************)
(* Characters and strings.                                                 *)
(***************************************************************************)
UpperLetters == <<"A","B","C","D","E","F","G","H","I","J","K","L","M","N","O","P","Q","R","S","T","U","V","W","X","Y","Z">>
LowerLetters == <<"a","b","c","d","e","f","g","h","i","j","k","l","m","n","o","p","q","r","s","t","u","v","w","x","y","z">>
Digits == {"0","1","2","3","4","5","6","7","8","9"}

\* Stands for the one character U+274C (cross mark) of line 92.
CrossMark == "(x)"

RECURSIVE Str(_)
\* The string made of the characters of s.
Str(s) == IF s = <<>> THEN "" ELSE Head(s) \o Str(Tail(s))

\* String.prototype.toLowerCase on one character.
LowerChar(c) ==
  IF \E i \in 1..Len(UpperLetters) : UpperLetters[i] = c
  THEN LowerLetters[CHOOSE i \in 1..Len(UpperLetters) : UpperLetters[i] = c]
  ELSE c

\* .toLowerCase()
ToLowerCase(s) == [i \in 1..Len(s) |-> LowerChar(s[i])]

\* The character class [a-z0-9] of line 71.
IsLowerAlnum(c) == (\E i \in 1..Len(LowerLetters) : LowerLetters[i] = c) \/ c \in Digits

\* .replace(/[^a-z0-9]/g, '_')
ReplaceNonAlnum(s) == [i \in 1..Len(s) |-> IF IsLowerAlnum(s[i]) THEN s[i] ELSE "_"]

RECURSIVE CollapseFrom(_, _)
\* s[i..] with every run of "_" that starts at or after i cut to one "_".
CollapseFrom(s, i) ==
  IF i > Len(s) THEN <<>>
  ELSE IF s[i] = "_" /\ i > 1 /\ s[i-1] = "_" THEN CollapseFrom(s, i + 1)
  ELSE <<s[i]>> \o CollapseFrom(s, i + 1)

\* A variant of CollapseUnderscores that leaves the runs as they are.
CollapseUnderscoresKeepRuns(s) == s

\* .replace(/_+/g, '_')
CollapseUnderscores(s) == CollapseFrom(s, 1)

\* The template literal `${company}_${title}_${location}`.
JoinTriple(company, title, location) == company \o <<"_">> \o title \o <<"_">> \o location

\* generateId, as characters.
generateIdChars(company, title, location) ==
  CollapseUnderscores(ReplaceNonAlnum(ToLowerCase(JoinTriple(company, title, location))))

\* generateId(company, title, location): string
generateId(company, title, location) == Str(generateIdChars(company, title, location))

RECURSIVE IncludesFrom(_, _, _)
IncludesFrom(s, sub, i) ==
  IF i + Len(sub) - 1 > Len(s) THEN FALSE
  ELSE IF SubSeq(s, i, i + Len(sub) - 1) = sub THEN TRUE
  ELSE IncludesFrom(s, sub, i + 1)

\* String.prototype.includes
Includes(s, sub) == IncludesFrom(s, sub, 1)

SoftwareEngineeringIntern == <<"S","o","f","t","w","a","r","e"," ","E","n","g","i","n","e","e","r","i","n","g"," ","I","n","t","e","r","n">>
SDEIntern == <<"S","D","E"," ","I","n","t","e","r","n">>

\* The hardcoded list of scrapeLevelsFyi.
bigTechInternships ==
  <<
     [company |-> <<"G","o","o","g","l","e">>,
      title |-> SoftwareEngineeringIntern,
      location |-> <<"M","o","u","n","t","a","i","n"," ","V","i","e","w",","," ","C","A">>],
     [company |-> <<"M","i","c","r","o","s","o","f","t">>,
      title |-> SoftwareEngineeringIntern,
      location |-> <<"R","e","d","m","o","n","d",","," ","W","A">>],
     [company |-> <<"A","p","p","l","e">>,
      title |-> SoftwareEngineeringIntern,
      location |-> <<"C","u","p","e","r","t","i","n","o",","," ","C","A">>],
     [company |-> <<"M","e","t","a">>,
      title |-> SoftwareEngineeringIntern,
      location |-> <<"M","e","n","l","o"," ","P","a","r","k",","," ","C","A">>],
     [company |-> <<"A","m","a","z","o","n">>,
      title |-> SDEIntern,
      location |-> <<"S","e","a","t","t","l","e",","," ","W","A">>],
     [company |-> <<"N","e","t","f","l","i","x">>,
      title |-> SoftwareEngineeringIntern,
      location |-> <<"L","o","s"," ","G","a","t","o","s",","," ","C","A">>],
     [company |-> <<"T","e","s","l","a">>,
      title |-> SoftwareEngineeringIntern,
      location |-> <<"A","u","s","t","i","n",","," ","T","X">>],
     [company |-> <<"U","b","e","r">>,
      title |-> SoftwareEngineeringIntern,
      location |-> <<"S","a","n"," ","F","r","a","n","c","i","s","c","o",","," ","C","A">>]
  >>

(***************************************************************************)
(* JavaScript values.                                                      *)
(***************************************************************************)
Undefined == [t |-> "undefined"]
Null == [t |-> "null"]
InvalidDate == [t |-> "InvalidDate"]
DateOf(ms) == [t |-> "Date", ms |-> ms]
IsoString(ms) == [t |-> "string", iso |-> ms]
EmptyObject == [t |-> "object", map |-> <<>>]

\* ToBoolean of a value.
Truthy(v) ==
  CASE v.t \in {"undefined", "null"} -> FALSE
    [] v.t = "number" -> v.n # 0
    [] v.t = "string" -> v # [t |-> "string", s |-> <<>>]
    [] OTHER -> TRUE

\* Values that are not objects: a property assignment to one throws in strict
\* mode, and to null or undefined in any mode.
IsPrimitive(v) == v.t \in {"undefined", "null", "number", "string", "boolean"}

\* new Date(v) for a value v read from JSON.
NewDate(v) ==
  CASE v.t = "string" /\ "iso" \in DOMAIN v -> DateOf(v.iso)
    [] v.t = "null" -> DateOf(0)
    [] v.t = "number" -> DateOf(v.n)
    [] OTHER -> InvalidDate

\* Date.prototype.toJSON, as JSON.stringify applies it.
DateToJSON(d) == IF d.t = "Date" THEN IsoString(d.ms) ELSE IF d.t = "InvalidDate" THEN Null ELSE d

\* The names every object inherits from Object.prototype.
ObjectPrototypeKeys ==
  {"constructor", "hasOwnProperty", "isPrototypeOf", "propertyIsEnumerable",
   "toLocaleString", "toString", "valueOf", "__proto__", "__defineGetter__",
   "__defineSetter__", "__lookupGetter__", "__lookupSetter__"}

\* The own string-keyed properties of a value used as Record<string, Internship>.
OwnProps(v) ==
  CASE v.t = "object" -> v.map
    [] v.t = "array" -> v.props
    [] OTHER -> <<>>

\* previous[key]
GetProp(v, key) ==
  IF key \in DOMAIN OwnProps(v) THEN OwnProps(v)[key]
  ELSE IF key \in ObjectPrototypeKeys THEN [t |-> "function"]
  ELSE Undefined

\* Object.keys(v)
Keys(v) == DOMAIN OwnProps(v)

\* Whether Object.values(v) throws.
ValuesThrows(v) == v.t \in {"undefined", "null"}

\* The elements of Object.values(v), as a set.
ObjectValues(v) ==
  CASE v.t = "object" -> {v.map[k] : k \in DOMAIN v.map}
    [] v.t = "array" -> {v.elems[i] : i \in 1..Len(v.elems)} \cup {v.props[k] : k \in DOMAIN v.props}
    [] v.t = "string" -> {[t |-> "string", s |-> <<v.s[i]>>] : i \in 1..Len(v.s)}
    [] OTHER -> {}

\* Whether v[key] = x throws (strict mode).
SetPropThrows(v) == IsPrimitive(v)

\* v after v[key] = x.
SetProp(v, key, x) ==
  LET put(m) == [k \in (DOMAIN m) \cup {key} |-> IF k = key THEN x ELSE m[k]]
  IN  CASE v.t = "object" -> [v EXCEPT !.map = put(v.map)]
        [] v.t = "array" -> [v EXCEPT !.props = put(v.props)]
        [] OTHER -> v

(***************************************************************************)
(* The state file: loadState and saveState.                                *)
(***************************************************************************)
Absent == [kind |-> "absent"]
Garbage == [kind |-> "garbage"]
JsonFile(doc) == [kind |-> "json", value |-> doc]

\* The object literal of lines 53-57.
FreshState(clock) ==
  [internships |-> EmptyObject, lastCheck |-> DateOf(clock), customSources |-> EmptyObject]

\* Lines 42-45 on one value of the internships mapping.
ReviveInternship(p) ==
  IF p.t # "object" THEN p
  ELSE [p EXCEPT !.discoveredAt = NewDate(@),
                 !.postedDate = IF Truthy(@) THEN NewDate(@) ELSE @]

\* Lines 41-46 on the internships value.
ReviveInternships(v) ==
  CASE v.t = "object" -> [v EXCEPT !.map = [k \in DOMAIN v.map |-> ReviveInternship(v.map[k])]]
    [] v.t = "array" -> [v EXCEPT !.elems = [i \in 1..Len(v.elems) |-> ReviveInternship(v.elems[i])]]
    [] OTHER -> v

\* Whether lines 38-46 throw on the content of the file.
LoadThrows(f) ==
  \/ f.kind = "garbage"
  \/ /\ f.kind = "json"
     /\ \/ f.value.t # "object"
        \/ ValuesThrows(f.value.internships)
        \/ \E p \in ObjectValues(f.value.internships) : IsPrimitive(p)

\* loadState(): TrackerState
loadState(f, clock) ==
  IF f.kind = "json" /\ ~LoadThrows(f)
  THEN [internships |-> ReviveInternships(f.value.internships),
        lastCheck |-> NewDate(f.value.lastCheck),
        customSources |-> f.value.customSources]
  ELSE FreshState(clock)

\* JSON.stringify of one posting.
InternshipToJSON(p) ==
  IF p.t # "object" THEN p
  ELSE [p EXCEPT !.discoveredAt = DateToJSON(@), !.postedDate = DateToJSON(@)]

\* JSON.stringify of the internships value: an array keeps its elements and
\* loses its named properties.
InternshipsToJSON(v) ==
  CASE v.t = "object" -> [v EXCEPT !.map = [k \in DOMAIN v.map |-> InternshipToJSON(v.map[k])]]
    [] v.t = "array" -> [v EXCEPT !.elems = [i \in 1..Len(v.elems) |-> InternshipToJSON(v.elems[i])],
                                  !.props = <<>>]
    [] OTHER -> v

\* JSON.stringify(state, null, 2), as the document it denotes.
Stringify(state) ==
  [t |-> "object",
   internships |-> InternshipsToJSON(state.internships),
   lastCheck |-> DateToJSON(state.lastCheck),
   customSources |-> state.customSources]

\* The identifiers the store holds: the keys of the mapping loadState yields.
StoreIds(f) == Keys(loadState(f, 0).internships)

(***************************************************************************)
(* The source adapters.                                                    *)
(***************************************************************************)
\* The cap of line 110.
GitHubLimit == 15

GitHubUrl == "https://github.com/SimplifyJobs/Summer2025-Internships"
LevelsUrl == "https://levels.fyi/internships"

IsSpace(c) == c \in {" ", "\t", "\n"}

RECURSIVE TrimStart(_)
TrimStart(s) == IF s # <<>> /\ IsSpace(Head(s)) THEN TrimStart(Tail(s)) ELSE s

RECURSIVE TrimEnd(_)
TrimEnd(s) == IF s # <<>> /\ IsSpace(s[Len(s)]) THEN TrimEnd(SubSeq(s, 1, Len(s) - 1)) ELSE s

\* String.prototype.trim
Trim(s) == TrimEnd(TrimStart(s))

\* Array.prototype.slice(0, n)
Slice(s, n) == SubSeq(s, 1, IF Len(s) < n THEN Len(s) ELSE n)

\* A settled promise of an adapter.
Fulfilled(v) == [rejected |-> FALSE, value |-> v]
Rejected == [rejected |-> TRUE, value |-> <<>>]

\* The posting pushed at lines 95-104 for one table row.
GitHubInternship(company, title, location, clock) ==
  [t |-> "object",
   id |-> generateId(company, title, location),
   company |-> Str(company), title |-> Str(title), location |-> Str(location),
   url |-> GitHubUrl, postedDate |-> Undefined, discoveredAt |-> DateOf(clock),
   isNew |-> TRUE, source |-> "GitHub"]

\* Whether the callback of lines 84-107 pushes a posting for the row.
RowKept(cells) ==
  /\ Len(cells) >= 3
  /\ Trim(cells[1]) # <<>>
  /\ Trim(cells[2]) # <<>>
  /\ ~Includes(Trim(cells[2]), <<CrossMark>>)
  /\ ~Includes(Trim(cells[2]), <<"C","l","o","s","e","d">>)

\* Rows of the GitHub page: two rows of one posting that differ in case and
\* punctuation, a row of a posting scrapeLevelsFyi lists too, a closed row, a
\* row marked with the cross, a row without company and a row of two cells.
RowPool ==
  { << <<"A","c","m","e">>, <<"S","W","E"," ","I","n","t","e","r","n">>, <<"N","Y","C">> >>,
    << <<" ","A","C","M","E"," ">>, <<"s","w","e","-","i","n","t","e","r","n">>, <<"n","y","c">> >>,
    << bigTechInternships[1].company, bigTechInternships[1].title, bigTechInternships[1].location >>,
    << <<"B","e","t","a">>, <<"I","n","t","e","r","n"," ","C","l","o","s","e","d">>, <<"S","F">> >>,
    << <<"B","e","t","a">>, <<CrossMark>>, <<"S","F">> >>,
    << <<" ">>, <<"I","n","t","e","r","n">>, <<"L","A">> >>,
    << <<"B","e","t","a">>, <<"I","n","t","e","r","n">> >> }

\* The postings of lines 95-104 for the rows of RowPool, computed once (with
\* the clock at 0): none for a row the callback skips.
PushedForRow ==
  [cells \in RowPool |->
    IF RowKept(cells)
    THEN <<GitHubInternship(Trim(cells[1]), Trim(cells[2]), Trim(cells[3]), 0)>>
    ELSE <<>>]

RECURSIVE RowsToInternships(_, _)
\* The internships array after the each() loop over the rows.
RowsToInternships(rows, clock) ==
  IF rows = <<>> THEN <<>>
  ELSE [i \in 1..Len(PushedForRow[Head(rows)]) |->
          [PushedForRow[Head(rows)][i] EXCEPT !.discoveredAt = DateOf(clock)]]
       \o RowsToInternships(Tail(rows), clock)

\* A variant of scrapeGitHubInternships without its try/catch: a failed
\* request rejects the promise.
scrapeGitHubInternshipsUncaught(response, clock) ==
  IF response.ok
  THEN Fulfilled(Slice(RowsToInternships(response.rows, clock), GitHubLimit))
  ELSE Rejected

\* scrapeGitHubInternships(): response is what this.axios.get produced, a page
\* (ok) or a thrown error.
scrapeGitHubInternships(response, clock) ==
  IF response.ok
  THEN Fulfilled(Slice(RowsToInternships(response.rows, clock), GitHubLimit))
  ELSE Fulfilled(<<>>)

\* The postings of lines 131-141, computed once (with the clock at 0).
LevelsInternships ==
  [i \in 1..Len(bigTechInternships) |->
    [t |-> "object",
     id |-> generateId(bigTechInternships[i].company, bigTechInternships[i].title,
                       bigTechInternships[i].location),
     company |-> Str(bigTechInternships[i].company),
     title |-> Str(bigTechInternships[i].title),
     location |-> Str(bigTechInternships[i].location),
     url |-> LevelsUrl, postedDate |-> DateOf(0), discoveredAt |-> DateOf(0),
     isNew |-> TRUE, source |-> "Levels.fyi"]]

\* scrapeLevelsFyi(): it performs no I/O and none of its steps throws.
scrapeLevelsFyi(clock) ==
  Fulfilled([i \in 1..Len(LevelsInternships) |->
    [LevelsInternships[i] EXCEPT !.postedDate = DateOf(clock), !.discoveredAt = DateOf(clock)]])

\* scrapeAllSources(): Promise.all rejects when either promise does, and the
\* catch of lines 154-156 then leaves allInternships empty.
scrapeAllSources(response, clock) ==
  LET githubInternships == scrapeGitHubInternships(response, clock)
      levelsInternships == scrapeLevelsFyi(clock)
  IN  IF githubInternships.rejected \/ levelsInternships.rejected
      THEN <<>>
      ELSE githubInternships.value \o levelsInternships.value

(***************************************************************************)
(* The diff.                                                               *)
(***************************************************************************)
\* A variant of findNewInternships that also reports a posting whose stored
\* record differs from it (content-based diffing).
findNewInternshipsByContent(current, previous) ==
  SelectSeq(current, LAMBDA internship : GetProp(previous, internship.id) # internship)

\* findNewInternships(current, previous)
findNewInternships(current, previous) ==
  SelectSeq(current, LAMBDA internship : ~Truthy(GetProp(previous, internship.id)))

(***************************************************************************)
(* The command line.                                                       *)
(***************************************************************************)
\* The default of lines 228 and 287.
DefaultInterval == 30

NaN == [nan |-> TRUE, n |-> 0]
Num(n) == [nan |-> FALSE, n |-> n]

DigitValue(c) == CHOOSE d \in 0..9 : <<"0","1","2","3","4","5","6","7","8","9">>[d + 1] = c

RECURSIVE DigitPrefix(_)
\* The longest prefix of s made of decimal digits.
DigitPrefix(s) == IF s # <<>> /\ Head(s) \in Digits THEN <<Head(s)>> \o DigitPrefix(Tail(s)) ELSE <<>>

RECURSIVE DecimalValue(_)
DecimalValue(ds) == IF ds = <<>> THEN 0 ELSE 10 * DecimalValue(SubSeq(ds, 1, Len(ds) - 1)) + DigitValue(ds[Len(ds)])

\* parseInt(string) with no radix, for text without a 0x prefix: leading white
\* space is skipped, one sign is read, then the longest run of digits.
parseInt(arg) ==
  LET s == TrimStart(arg)
      signed == s # <<>> /\ Head(s) \in {"-", "+"}
      body == IF signed THEN Tail(s) ELSE s
      ds == DigitPrefix(body)
  IN  IF ds = <<>> THEN NaN
      ELSE Num(IF signed /\ Head(s) = "-" THEN 0 - DecimalValue(ds) ELSE DecimalValue(ds))

\* process.argv[3] when the argument is missing: parseInt reads "undefined".
ArgText(arg) == IF arg.present THEN arg.text ELSE <<"u","n","d","e","f","i","n","e","d">>

\* parseInt(process.argv[3]) || 30
IntervalOf(arg) ==
  LET parsed == parseInt(ArgText(arg))
  IN  IF parsed.nan \/ parsed.n = 0 THEN DefaultInterval ELSE parsed.n

(***************************************************************************)
(* The state of the program and of its environment.                        *)
(***************************************************************************)
VARIABLES
  file,     \* the content of tracker-state.json
  proc,     \* the running process: its command, the monitor's interval and timer
  ops,      \* every checkOnce, checkForInternships and listInternships call started
  running,  \* the call whose synchronous code is executing, 0 when none is
  now,      \* the clock new Date() reads
  idPrev,   \* a (company, title, location) triple
  idCur     \* a variant of idPrev

vars == <<file, proc, ops, running, now, idPrev, idCur>>

NoProcess == [cmd |-> "none", interval |-> 0, timerSet |-> FALSE, arg |-> [present |-> FALSE, text |-> <<>>], first |-> 0]

\* The locals of a call when it starts. events is the record of what the call
\* has done so far, in the order in which it did it.
NewOp(kind, pc) ==
  [kind |-> kind, pc |-> pc, state |-> Undefined, current |-> <<>>,
   newInternships |-> <<>>, wrote |-> FALSE, events |-> <<>>]

InFlight(o) == ops[o].pc \notin {"done", "failed", "killed"}

RECURSIVE SeqsUpTo(_, _)
\* The sequences of at most n elements of S.
SeqsUpTo(S, n) ==
  IF n = 0 THEN {<<>>}
  ELSE LET shorter == SeqsUpTo(S, n - 1)
       IN  shorter \cup {Append(s, x) : s \in shorter, x \in S}

\* What this.axios.get can produce: a page, or a thrown error.
Responses == {[ok |-> FALSE, rows |-> <<>>]} \cup {[ok |-> TRUE, rows |-> r] : r \in SeqsUpTo(RowPool, MaxRows)}

\* A posting as an earlier run stored it.
StoredPosting(company, title, location, clock) ==
  InternshipToJSON(GitHubInternship(company, title, location, clock))

AcmeId == generateId(<<"A","c","m","e">>, <<"S","W","E"," ","I","n","t","e","r","n">>, <<"N","Y","C">>)
OldCoId == generateId(<<"O","l","d","C","o">>, <<"I","n","t","e","r","n">>, <<"R","e","m","o","t","e">>)

\* A state file of an earlier run: one posting no source lists any more, and the
\* older snapshot of a posting the GitHub page may list again.
EarlierRun ==
  [t |-> "object",
   internships |-> [t |-> "object", map |->
     (OldCoId :> StoredPosting(<<"O","l","d","C","o">>, <<"I","n","t","e","r","n">>, <<"R","e","m","o","t","e">>, 0)) @@
     (AcmeId :> StoredPosting(<<"A","C","M","E">>, <<"s","w","e","-","i","n","t","e","r","n">>, <<"n","y","c">>, 0))],
   lastCheck |-> IsoString(0),
   customSources |-> EmptyObject]

\* The documents tracker-state.json may hold when the program starts.
Documents ==
  { Null,
    [t |-> "object", internships |-> Undefined, lastCheck |-> Undefined, customSources |-> Undefined],
    [t |-> "object", internships |-> [t |-> "number", n |-> 5], lastCheck |-> IsoString(0), customSources |-> EmptyObject],
    [t |-> "object", internships |-> [t |-> "string", s |-> <<"a","b">>], lastCheck |-> IsoString(0), customSources |-> EmptyObject],
    [t |-> "object", internships |-> [t |-> "array", elems |-> <<>>, props |-> <<>>], lastCheck |-> IsoString(0), customSources |-> EmptyObject],
    [t |-> "object", internships |-> [t |-> "object", map |-> (AcmeId :> Null)], lastCheck |-> IsoString(0), customSources |-> EmptyObject],
    [t |-> "object", internships |-> [t |-> "object", map |-> (AcmeId :> [t |-> "number", n |-> 0])], lastCheck |-> IsoString(0), customSources |-> EmptyObject],
    EarlierRun }

InitialFiles == {Absent, Garbage} \cup {JsonFile(d) : d \in Documents}

\* The argument after "monitor" on the command line.
ArgChars == {"5", "0", "-", "a"}
Args(n) == {[present |-> FALSE, text |-> <<>>]} \cup {[present |-> TRUE, text |-> s] : s \in SeqsUpTo(ArgChars, n) \ {<<>>}}

Init ==
  /\ file \in InitialFiles
  /\ proc = NoProcess
  /\ ops = <<>>
  /\ running = 0
  /\ now = 1
  /\ idPrev = << <<>>, <<>>, <<>> >>
  /\ idCur = << <<>>, <<>>, <<>> >>

(***************************************************************************)
(* main: one process per command line.                                     *)
(***************************************************************************)
Start(kind, pc) ==
  /\ Len(ops) < MaxOps
  /\ ops' = Append(ops, NewOp(kind, pc))
  /\ now' = now + 1

\* case 'monitor': the interval is computed, monitor() runs checkForInternships
\* up to its await.
MainMonitor(arg) ==
  /\ proc.cmd = "none"
  /\ Start("monitor", "load")
  /\ proc' = [cmd |-> "monitor", interval |-> IntervalOf(arg), timerSet |-> FALSE,
              arg |-> arg, first |-> Len(ops) + 1]
  /\ running' = Len(ops) + 1
  /\ UNCHANGED <<file, idPrev, idCur>>

\* case 'check': checkOnce() runs up to its await of scrapeAllSources().
MainCheck ==
  /\ proc.cmd = "none"
  /\ Start("check", "fetch")
  /\ proc' = [NoProcess EXCEPT !.cmd = "check", !.first = Len(ops) + 1]
  /\ running' = 0
  /\ UNCHANGED <<file, idPrev, idCur>>

\* case 'list'
MainList ==
  /\ proc.cmd = "none"
  /\ Start("list", "load")
  /\ proc' = [NoProcess EXCEPT !.cmd = "list", !.first = Len(ops) + 1]
  /\ running' = Len(ops) + 1
  /\ UNCHANGED <<file, idPrev, idCur>>

\* default: the usage text is printed.
MainUsage ==
  /\ proc.cmd = "none"
  /\ proc' = [NoProcess EXCEPT !.cmd = "usage"]
  /\ UNCHANGED <<file, ops, running, now, idPrev, idCur>>

\* main() with process.argv[2] and process.argv[3].
Main(command, arg) ==
  CASE command = "monitor" -> MainMonitor(arg)
    [] command = "check" -> MainCheck
    [] command = "list" -> MainList
    [] OTHER -> MainUsage

(***************************************************************************)
(* The steps of checkOnce, checkForInternships and listInternships.        *)
(***************************************************************************)
\* A variant of AfterLoad in which checkOnce saves without merging.
AfterLoadSkippingMerge(kind) == CASE kind = "monitor" -> "scrape" [] kind = "check" -> "save" [] OTHER -> "display"

\* The step that follows the load and the fetch in a call of the kind.
AfterLoad(kind) == CASE kind = "monitor" -> "scrape" [] kind = "check" -> "merge" [] OTHER -> "display"
AfterFetch(kind) == IF kind = "monitor" THEN "diff" ELSE "load"

\* this.loadState() at lines 220, 236 and 270.
Load(o) ==
  /\ running = o
  /\ ops[o].pc = "load"
  /\ ops' = [ops EXCEPT ![o].state = loadState(file, now),
                        ![o].events = Append(@, [e |-> "load",
                                                 keys |-> Keys(loadState(file, now).internships),
                                                 inFlight |-> {p \in 1..Len(ops) : p # o /\ InFlight(p)}]),
                        ![o].pc = AfterLoad(ops[o].kind)]
  /\ UNCHANGED <<file, proc, running, now, idPrev, idCur>>

\* Line 237 up to its await: scrapeAllSources() has sent the request, and the
\* cycle waits for the answer while other callbacks may run.
AwaitScrape(o) ==
  /\ running = o
  /\ ops[o].pc = "scrape"
  /\ ops' = [ops EXCEPT ![o].pc = "fetch"]
  /\ running' = 0
  /\ UNCHANGED <<file, proc, now, idPrev, idCur>>

\* await this.scrapeAllSources() resumes with the postings of both adapters.
FetchDone(o, response) ==
  /\ running = 0
  /\ ops[o].pc = "fetch"
  /\ ops' = [ops EXCEPT ![o].current = scrapeAllSources(response, now),
                        ![o].events = Append(@, [e |-> "fetch", failed |-> ~response.ok]),
                        ![o].pc = AfterFetch(ops[o].kind)]
  /\ running' = o
  /\ UNCHANGED <<file, proc, now, idPrev, idCur>>

\* Line 238, and the branch of line 240.
Diff(o) ==
  /\ running = o
  /\ ops[o].pc = "diff"
  /\ LET newInternships == findNewInternships(ops[o].current, ops[o].state.internships)
     IN  ops' = [ops EXCEPT ![o].newInternships = newInternships,
                            ![o].events = Append(@, [e |-> "diff"]),
                            ![o].pc = IF Len(newInternships) > 0 THEN "notify" ELSE "merge"]
  /\ UNCHANGED <<file, proc, running, now, idPrev, idCur>>

\* A variant of Notify that alerts for every fetched posting.
NotifyEveryPosting(o) ==
  /\ running = o
  /\ ops[o].pc = "notify"
  /\ ops' = [ops EXCEPT ![o].events = @ \o [i \in 1..Len(ops[o].current) |->
                                             [e |-> "notify", internship |-> ops[o].current[i]]],
                        ![o].pc = "merge"]
  /\ UNCHANGED <<file, proc, running, now, idPrev, idCur>>

\* The forEach of lines 243-245: sendNotification(internship) for each new
\* posting in turn.
Notify(o) ==
  /\ running = o
  /\ ops[o].pc = "notify"
  /\ ops' = [ops EXCEPT ![o].events = @ \o [i \in 1..Len(ops[o].newInternships) |->
                                             [e |-> "notify", internship |-> ops[o].newInternships[i]]],
                        ![o].pc = "merge"]
  /\ UNCHANGED <<file, proc, running, now, idPrev, idCur>>

\* A variant of MergeInto that keeps only the postings of this cycle.
MergeIntoReplacing(internships, current) ==
  [t |-> "object",
   map |-> [k \in {current[i].id : i \in 1..Len(current)} |->
     current[CHOOSE i \in 1..Len(current) : current[i].id = k /\ \A j \in (i+1)..Len(current) : current[j].id # k]]]

RECURSIVE MergeInto(_, _)
\* internships after the forEach of lines 221-223 and 253-255.
MergeInto(internships, current) ==
  IF current = <<>> THEN internships
  ELSE MergeInto(SetProp(internships, Head(current).id, Head(current)), Tail(current))

\* Lines 221-224 and 253-256. The first assignment throws when the loaded
\* internships value is a primitive, and the call ends with that error.
Merge(o) ==
  /\ running = o
  /\ ops[o].pc = "merge"
  /\ IF ops[o].current # <<>> /\ SetPropThrows(ops[o].state.internships)
     THEN /\ ops' = [ops EXCEPT ![o].pc = "failed"]
          /\ running' = 0
     ELSE /\ ops' = [ops EXCEPT ![o].state.internships = MergeInto(@, ops[o].current),
                                ![o].state.lastCheck = DateOf(now),
                                ![o].events = Append(@, [e |-> "merge"]),
                                ![o].pc = "save"]
          /\ running' = o
  /\ UNCHANGED <<file, proc, now, idPrev, idCur>>

\* this.saveState(state): fs.writeFileSync replaces the file, or throws and
\* leaves the older snapshot, which saveState catches and logs.
Save(o, written) ==
  /\ running = o
  /\ ops[o].pc = "save"
  /\ file' = IF written THEN JsonFile(Stringify(ops[o].state)) ELSE file
  /\ ops' = [ops EXCEPT ![o].wrote = written,
                        ![o].events = Append(@, [e |-> "save", written |-> written]),
                        ![o].pc = "done"]
  /\ running' = 0
  /\ UNCHANGED <<proc, now, idPrev, idCur>>

\* Lines 271-276 of listInternships.
Display(o) ==
  /\ running = o
  /\ ops[o].pc = "display"
  /\ ops' = [ops EXCEPT ![o].events = Append(@, [e |-> "display", count |-> Cardinality(ObjectValues(ops[o].state.internships))]),
                        ![o].pc = "done"]
  /\ running' = 0
  /\ UNCHANGED <<file, proc, now, idPrev, idCur>>

(***************************************************************************)
(* The monitor's timer and the end of a process.                           *)
(***************************************************************************)
\* Line 266, reached when the initial check has returned.
SetInterval ==
  /\ proc.cmd = "monitor"
  /\ ~proc.timerSet
  /\ ops[proc.first].pc = "done"
  /\ proc' = [proc EXCEPT !.timerSet = TRUE]
  /\ UNCHANGED <<file, ops, running, now, idPrev, idCur>>

\* The timer calls checkForInternships: nothing looks at the calls that still
\* wait for their fetch.
TimerFire ==
  /\ proc.cmd = "monitor"
  /\ proc.timerSet
  /\ running = 0
  /\ Start("monitor", "load")
  /\ running' = Len(ops) + 1
  /\ UNCHANGED <<file, proc, idPrev, idCur>>

\* The timer, for runs in which every call ends before the next one starts.
TimerFireAfterCompletion ==
  /\ \A o \in 1..Len(ops) : ~InFlight(o)
  /\ TimerFire

\* The process ends: main() returned or rejected with nothing left to wait for.
Exit ==
  /\ running = 0
  /\ \/ proc.cmd = "usage"
     \/ proc.cmd \in {"check", "list"} /\ ~InFlight(proc.first)
     \/ proc.cmd = "monitor" /\ ops[proc.first].pc = "failed"
  /\ proc' = NoProcess
  /\ UNCHANGED <<file, ops, running, now, idPrev, idCur>>

\* The monitor is terminated from outside, or by the unhandled rejection of a
\* cycle, between two callbacks: the calls that wait for their fetch are
\* dropped with their locals.
Kill ==
  /\ proc.cmd = "monitor"
  /\ running = 0
  /\ proc' = NoProcess
  /\ ops' = [o \in 1..Len(ops) |-> IF InFlight(o) THEN NewOp(ops[o].kind, "killed") ELSE ops[o]]
  /\ UNCHANGED <<file, running, now, idPrev, idCur>>

Commands == {"monitor", "check", "list", "help"}

Step ==
  \/ \E o \in 1..Len(ops) : Load(o)
  \/ \E o \in 1..Len(ops) : AwaitScrape(o)
  \/ \E o \in 1..Len(ops) : \E response \in Responses : FetchDone(o, response)
  \/ \E o \in 1..Len(ops) : Diff(o)
  \/ \E o \in 1..Len(ops) : Notify(o)
  \/ \E o \in 1..Len(ops) : Merge(o)
  \/ \E o \in 1..Len(ops) : \E written \in BOOLEAN : Save(o, written)
  \/ \E o \in 1..Len(ops) : Display(o)
  \/ SetInterval
  \/ Exit
  \/ Kill

Next ==
  \/ \E command \in Commands : \E arg \in Args(0) : Main(command, arg)
  \/ Step
  \/ TimerFire

Spec == Init /\ [][Next]_vars

NextSequential ==
  \/ \E command \in Commands : \E arg \in Args(0) : Main(command, arg)
  \/ Step
  \/ TimerFireAfterCompletion

\* The program when every operation runs to completion before the next starts.
SpecSequential == Init /\ [][NextSequential]_vars

\* The command line, every command with every interval argument, up to the
\* first await of the command.
NextCli ==
  \/ \E command \in Commands : \E arg \in Args(MaxArgLen) : Main(command, arg)
  \/ \E o \in 1..Len(ops) : Load(o)
  \/ \E o \in 1..Len(ops) : AwaitScrape(o)
  \/ Exit
  \/ Kill

SpecCli == Init /\ [][NextCli]_vars

(***************************************************************************)
(* generateId on triples and their variants.                               *)
(***************************************************************************)
\* Characters of the triples: a letter in both cases, a digit, two separators.
IdAlphabet == {"a", "A", "1", "-", " "}

IsLetter(c) == \E i \in 1..Len(UpperLetters) : c = UpperLetters[i] \/ c = LowerLetters[i]
IsAlphanumeric(c) == IsLetter(c) \/ c \in Digits

\* The letter in its other case.
OtherCase(c) ==
  LET i == CHOOSE k \in 1..Len(UpperLetters) : c = UpperLetters[k] \/ c = LowerLetters[k]
  IN  IF c = UpperLetters[i] THEN LowerLetters[i] ELSE UpperLetters[i]

Joined(triple) == JoinTriple(triple[1], triple[2], triple[3])

\* The place in Joined(triple) of the character before place i + 1 of field f.
Offset(triple, f, i) ==
  i + (IF f > 1 THEN Len(triple[1]) + 1 ELSE 0) + (IF f > 2 THEN Len(triple[2]) + 1 ELSE 0)

\* Whether place j of the string exists and holds no letter or digit.
SeparatorAt(s, j) == j >= 1 /\ j <= Len(s) /\ ~IsAlphanumeric(s[j])

InitId ==
  /\ file = Absent
  /\ proc = NoProcess
  /\ ops = <<>>
  /\ running = 0
  /\ now = 1
  /\ idPrev \in SeqsUpTo(IdAlphabet, MaxFieldLen) \X SeqsUpTo(IdAlphabet, MaxFieldLen) \X SeqsUpTo(IdAlphabet, MaxFieldLen)
  /\ idCur = idPrev

Vary(triple) ==
  /\ idPrev' = idCur
  /\ idCur' = triple
  /\ UNCHANGED <<file, proc, ops, running, now>>

\* A letter changes case.
ChangeCase(f, i) ==
  /\ i <= Len(idCur[f])
  /\ IsLetter(idCur[f][i])
  /\ Vary([idCur EXCEPT ![f][i] = OtherCase(@)])

\* A separating character becomes another one.
ChangeSeparator(f, i, c) ==
  /\ i <= Len(idCur[f])
  /\ ~IsAlphanumeric(idCur[f][i])
  /\ ~IsAlphanumeric(c)
  /\ c # idCur[f][i]
  /\ Vary([idCur EXCEPT ![f][i] = c])

\* A run of separating characters gets one more.
GrowRun(f, i, c) ==
  /\ i <= Len(idCur[f])
  /\ Len(idCur[f]) < MaxFieldLen
  /\ ~IsAlphanumeric(c)
  /\ \/ SeparatorAt(Joined(idCur), Offset(idCur, f, i))
     \/ SeparatorAt(Joined(idCur), Offset(idCur, f, i) + 1)
  /\ Vary([idCur EXCEPT ![f] = SubSeq(@, 1, i) \o <<c>> \o SubSeq(@, i + 1, Len(@))])

\* A run of at least two separating characters loses one.
ShrinkRun(f, i) ==
  /\ i >= 1
  /\ i <= Len(idCur[f])
  /\ ~IsAlphanumeric(idCur[f][i])
  /\ \/ SeparatorAt(Joined(idCur), Offset(idCur, f, i) - 1)
     \/ SeparatorAt(Joined(idCur), Offset(idCur, f, i) + 1)
  /\ Vary([idCur EXCEPT ![f] = SubSeq(@, 1, i - 1) \o SubSeq(@, i + 1, Len(@))])

NextId ==
  \/ \E f \in 1..3 : \E i \in 1..MaxFieldLen : ChangeCase(f, i)
  \/ \E f \in 1..3 : \E i \in 1..MaxFieldLen : \E c \in IdAlphabet : ChangeSeparator(f, i, c)
  \/ \E f \in 1..3 : \E i \in 0..MaxFieldLen : \E c \in IdAlphabet : GrowRun(f, i, c)
  \/ \E f \in 1..3 : \E i \in 1..MaxFieldLen : ShrinkRun(f, i)

\* generateId applied to triples and to their case and punctuation variants.
SpecId == InitId /\ [][NextId]_vars

(***************************************************************************)
(* Reading the record of a call.                                           *)
(***************************************************************************)
Fetching(o) == ops[o].kind \in {"check", "monitor"}
Places(o, e) == {i \in 1..Len(ops[o].events) : ops[o].events[i].e = e}
Did(o, e) == Places(o, e) # {}
TheEvent(o, e) == ops[o].events[CHOOSE i \in Places(o, e) : TRUE]
LoadedKeys(o) == TheEvent(o, "load").keys
Notified(o) == LET n == SelectSeq(ops[o].events, LAMBDA ev : ev.e = "notify")
               IN  [i \in 1..Len(n) |-> n[i].internship]
IdsOf(postings) == {postings[i].id : i \in 1..Len(postings)}

\* The k-th smallest element of a set of numbers.
NthOf(S, k) == CHOOSE i \in S : Cardinality({j \in S : j < i}) = k - 1

\* The elements of current whose id is not in keys, in the order of current.
ExpectedNew(current, keys) ==
  LET absent == {i \in 1..Len(current) : current[i].id \notin keys}
  IN  [k \in 1..Cardinality(absent) |-> current[NthOf(absent, k)]]

(***************************************************************************)
(* C1                                                                      *)
(***************************************************************************)
\* C1: in every monitor cycle that has computed its diff and not yet merged,
\* newInternships is exactly the elements of the fetched list whose id is not a
\* key of the loaded mapping, in the order of the fetched list: a posting whose
\* id is a key is left out whatever its stored record, and postings that share
\* an id are all kept.
C1_FindNewExact ==
  \A o \in 1..Len(ops) :
    ops[o].kind = "monitor" /\ ops[o].pc \in {"notify", "merge"}
    => ops[o].newInternships = ExpectedNew(ops[o].current, Keys(ops[o].state.internships))

\* A cycle left out a fetched posting that differs from the stored record of
\* its id, and a cycle kept two new postings of one id.
C1_Witness ==
  /\ \E o \in 1..Len(ops) :
       /\ ops[o].kind = "monitor" /\ ops[o].pc \in {"notify", "merge"}
       /\ \E i \in 1..Len(ops[o].current) :
            /\ ops[o].current[i].id \in Keys(ops[o].state.internships)
            /\ GetProp(ops[o].state.internships, ops[o].current[i].id) # ops[o].current[i]
            /\ \A k \in 1..Len(ops[o].newInternships) : ops[o].newInternships[k].id # ops[o].current[i].id
  /\ \E o \in 1..Len(ops) : \E i, j \in 1..Len(ops[o].newInternships) :
       i # j /\ ops[o].newInternships[i].id = ops[o].newInternships[j].id

(***************************************************************************)
(* C2                                                                      *)
(***************************************************************************)
\* The stored record of an identifier.
StoredRecord(f, id) == GetProp(loadState(f, 0).internships, id)

\* C2: when operations run one at a time, every step keeps every identifier of
\* the persisted store, and a record changes only when the saving cycle fetched
\* a posting of its identifier.
C2_AdditiveOnly ==
  [][\A id \in StoreIds(file) :
       /\ id \in StoreIds(file')
       /\ \/ StoredRecord(file', id) = StoredRecord(file, id)
          \/ running # 0 /\ id \in IdsOf(ops[running].current)]_vars

\* A cycle has written a store that still holds the posting no source lists
\* and holds a refreshed record of the posting the GitHub page lists again.
C2_Witness ==
  /\ \E o \in 1..Len(ops) : ops[o].pc = "done" /\ ops[o].wrote /\ AcmeId \in IdsOf(ops[o].current)
  /\ {OldCoId, AcmeId} \subseteq StoreIds(file)
  /\ StoredRecord(file, AcmeId) # StoredRecord(JsonFile(EarlierRun), AcmeId)
  /\ StoredRecord(file, OldCoId) = StoredRecord(JsonFile(EarlierRun), OldCoId)

(***************************************************************************)
(* C3                                                                      *)
(***************************************************************************)
\* C3: in every monitor cycle no notification is for an identifier that was a
\* key of the store the cycle loaded; once the cycle is past its notifications
\* it has notified exactly the diff of its fetched postings against that store,
\* one notification per element in order; and every notification precedes the
\* merge and the save of the cycle.
C3_NotifyExactlyNew ==
  \A o \in 1..Len(ops) :
    ops[o].kind = "monitor" =>
      /\ \A i \in Places(o, "notify") : ops[o].events[i].internship.id \notin LoadedKeys(o)
      /\ ops[o].pc \in {"merge", "save", "done", "failed"}
           => Notified(o) = ExpectedNew(ops[o].current, LoadedKeys(o))
      /\ \A i \in Places(o, "notify") : \A j \in Places(o, "merge") \cup Places(o, "save") : i < j

\* A finished cycle notified some fetched postings and stayed silent on others.
C3_Witness ==
  \E o \in 1..Len(ops) :
    /\ ops[o].kind = "monitor" /\ ops[o].pc = "done"
    /\ Len(Notified(o)) > 0
    /\ Len(Notified(o)) < Len(ops[o].current)

(***************************************************************************)
(* C4                                                                      *)
(***************************************************************************)
\* A posting without its timestamps.
Undated(p) == [p EXCEPT !.discoveredAt = Undefined, !.postedDate = Undefined]
SameOutput(a, b) == Len(a) = Len(b) /\ \A i \in 1..Len(a) : Undated(a[i]) = Undated(b[i])

\* The cycle has completed and its fetched postings are in the file it wrote.
Persisted(k) ==
  /\ Fetching(k) /\ ops[k].pc = "done" /\ ops[k].wrote
  /\ IdsOf(ops[k].current) \subseteq StoreIds(JsonFile(Stringify(ops[k].state)))

\* j is the next cycle after k to fetch, with no write in between.
Follows(k, j) ==
  /\ k < j /\ Fetching(j)
  /\ \A m \in (k+1)..(j-1) : ~ops[m].wrote

\* C4: when operations run one at a time and a cycle has persisted its fetched
\* output, a following cycle that fetches the same output computes an empty
\* diff and notifies nothing, and ends with the same set of identifiers, the
\* records of the identifiers it did not fetch and the custom sources unchanged.
C4_SecondRunIdempotent ==
  \A k, j \in 1..Len(ops) :
    Persisted(k) /\ Follows(k, j) /\ SameOutput(ops[k].current, ops[j].current) =>
      /\ Did(j, "diff") => ops[j].newInternships = <<>>
      /\ ~Did(j, "notify")
      /\ Did(j, "merge") =>
           /\ Keys(ops[j].state.internships) = Keys(ops[k].state.internships)
           /\ \A id \in Keys(ops[k].state.internships) \ IdsOf(ops[j].current) :
                GetProp(ops[j].state.internships, id) = GetProp(ops[k].state.internships, id)
           /\ ops[j].state.customSources = ops[k].state.customSources
      /\ ops[j].pc = "done" /\ ops[j].wrote
           => StoreIds(JsonFile(Stringify(ops[j].state))) = StoreIds(JsonFile(Stringify(ops[k].state)))

\* A monitor cycle fetched what the cycle before it had persisted, and has
\* saved in its turn, with a later last-check time.
C4_Witness ==
  \E k, j \in 1..Len(ops) :
    /\ Persisted(k) /\ Follows(k, j) /\ SameOutput(ops[k].current, ops[j].current)
    /\ ops[j].kind = "monitor" /\ ops[j].pc = "done" /\ ops[j].wrote
    /\ ops[j].state.lastCheck # ops[k].state.lastCheck
    /\ OldCoId \in StoreIds(file)

(***************************************************************************)
(* C5                                                                      *)
(***************************************************************************)
\* The file holds a document of the structure saveState writes: an object whose
\* internships field is an object of posting objects.
ValidStructure(f) ==
  /\ f.kind = "json"
  /\ f.value.t = "object"
  /\ f.value.internships.t = "object"
  /\ \A k \in DOMAIN f.value.internships.map : f.value.internships.map[k].t = "object"

\* C5: a call that has just loaded a file that is absent, unparsable or of
\* invalid structure holds the fresh empty state (empty internships mapping,
\* the current time as last check, empty custom sources), and no call fails.
C5_InvalidFileStartsFresh ==
  \A o \in 1..Len(ops) :
    /\ running = o /\ ops[o].pc = AfterLoad(ops[o].kind) /\ ~ValidStructure(file)
         => ops[o].state = FreshState(now)
    /\ ops[o].pc # "failed"

(***************************************************************************)
(* C6                                                                      *)
(***************************************************************************)
\* C6: the postings a call fetched are the GitHub postings followed by all the
\* Levels.fyi postings in the order of the hardcoded list; when the GitHub
\* request failed they are the Levels.fyi postings alone, never nothing.
C6_AdapterIsolation ==
  \A o \in 1..Len(ops) :
    Did(o, "fetch") =>
      LET current == ops[o].current
          github == Len(current) - Len(bigTechInternships)
      IN  /\ github >= 0
          /\ \A i \in 1..Len(bigTechInternships) :
               /\ current[github + i].source = "Levels.fyi"
               /\ current[github + i].id = LevelsInternships[i].id
          /\ \A i \in 1..github : current[i].source = "GitHub"
          /\ TheEvent(o, "fetch").failed => github = 0

\* A cycle whose GitHub request failed went on to merge the Levels.fyi postings.
C6_Witness ==
  \E o \in 1..Len(ops) :
    /\ Did(o, "fetch") /\ TheEvent(o, "fetch").failed
    /\ Len(ops[o].current) = Len(bigTechInternships)
    /\ Did(o, "merge")

(***************************************************************************)
(* C7                                                                      *)
(***************************************************************************)
Before(o, e1, e2) == \A j \in Places(o, e2) : \E i \in Places(o, e1) : i < j

\* What the single check and the monitor cycle share: one load, the merge after
\* the load and the fetch, one save, after the merge, as the last step.
OneLoadMergeSave(o) ==
  /\ Cardinality(Places(o, "load")) <= 1
  /\ Cardinality(Places(o, "save")) <= 1
  /\ Before(o, "load", "merge")
  /\ Before(o, "fetch", "merge")
  /\ Before(o, "merge", "save")
  /\ \A i \in Places(o, "save") : i = Len(ops[o].events)
  /\ ops[o].pc = "done" => Did(o, "load") /\ Did(o, "fetch") /\ Did(o, "merge") /\ Did(o, "save")

\* C7 as stated: in the single check and in every monitor cycle the store is
\* loaded once before the adapters are fetched, merged after that, and saved
\* once at the end.
C7_LoadBeforeFetch ==
  \A o \in 1..Len(ops) :
    Fetching(o) => OneLoadMergeSave(o) /\ Before(o, "load", "fetch")

\* C7 amended: a monitor cycle loads before it fetches, the single check loads
\* after its fetch has returned; in both the store is loaded once, merged after
\* the load and the fetch, and saved once, after the merge, as the last step.
C7_OrderByOperation ==
  \A o \in 1..Len(ops) :
    Fetching(o) =>
      /\ OneLoadMergeSave(o)
      /\ ops[o].kind = "monitor" => Before(o, "load", "fetch")
      /\ ops[o].kind = "check" => Before(o, "fetch", "load")

\* A single check and a monitor cycle have both run to their save.
C7_Witness ==
  \E a, b \in 1..Len(ops) :
    /\ ops[a].kind = "check" /\ ops[a].pc = "done"
    /\ ops[b].kind = "monitor" /\ ops[b].pc = "done"

(***************************************************************************)
(* C8                                                                      *)
(***************************************************************************)
\* C8: the monitor's interval is positive: the parsed argument when it is
\* present and parses to a positive integer, the default otherwise.
C8_IntervalPositive ==
  proc.cmd = "monitor" =>
    LET parsed == parseInt(ArgText(proc.arg))
    IN  /\ proc.interval > 0
        /\ proc.interval = IF proc.arg.present /\ ~parsed.nan /\ parsed.n > 0
                           THEN parsed.n ELSE DefaultInterval

(***************************************************************************)
(* C9                                                                      *)
(***************************************************************************)
\* C9: the identifier of a triple holds only characters of [a-z0-9] and "_",
\* never two "_" in a row, and a triple that differs from it in the case of a
\* letter, in a separating character or in the length of a run of separating
\* characters has the same identifier.
C9_IdNormalForm ==
  LET id == generateIdChars(idCur[1], idCur[2], idCur[3])
  IN  /\ \A i \in 1..Len(id) : IsLowerAlnum(id[i]) \/ id[i] = "_"
      /\ \A i \in 1..(Len(id) - 1) : ~(id[i] = "_" /\ id[i + 1] = "_")
      /\ generateId(idPrev[1], idPrev[2], idPrev[3]) = Str(id)

\* Two different triples, one with a capital letter, whose joined text holds a
\* run of separating characters that the identifier shortens.
C9_Witness ==
  /\ idPrev # idCur
  /\ \E f \in 1..3 : \E i \in 1..Len(idCur[f]) : idCur[f][i] \in {"A"}
  /\ Len(generateIdChars(idCur[1], idCur[2], idCur[3])) < Len(Joined(idCur))

(***************************************************************************)
(* C10                                                                     *)
(***************************************************************************)
\* Cycle b loaded the store while cycle a, which had loaded the same store,
\* was waiting for its fetch.
Overlapping(a, b) ==
  /\ ops[a].kind = "monitor" /\ ops[b].kind = "monitor"
  /\ Did(a, "load") /\ Did(b, "load")
  /\ a \in TheEvent(b, "load").inFlight
  /\ LoadedKeys(a) = LoadedKeys(b)

\* C10: once two overlapping cycles have both saved, the store holds every
\* identifier they loaded and fetched, and no identifier was notified by both.
C10_NoLostUpdate ==
  \A a, b \in 1..Len(ops) :
    /\ Overlapping(a, b)
    /\ ops[a].pc = "done" /\ ops[a].wrote
    /\ ops[b].pc = "done" /\ ops[b].wrote
    /\ file \in {JsonFile(Stringify(ops[a].state)), JsonFile(Stringify(ops[b].state))}
    => /\ LoadedKeys(a) \cup IdsOf(ops[a].current) \cup IdsOf(ops[b].current) \subseteq StoreIds(file)
       /\ IdsOf(Notified(a)) \cap IdsOf(Notified(b)) = {}
====
